---- MODULE Spec2Model ----
(***************************************************************************)
(* Model of the interpolators package (github.com/schollz/interpolation).  *)
(*                                                                         *)
(* The package is a pure library: Interpolate(in, outSamples, type) and    *)
(* InterpolateInt(in, outSamples, type).  A call is modelled as one step   *)
(* of a caller that owns an input buffer, performs the call, receives a    *)
(* result buffer and may afterwards write into the result.                 *)
(*                                                                         *)
(* float64 values are modelled as exact rationals <<num, den>> (den > 0,   *)
(* lowest terms).  The two float specials that the code can produce, +Inf  *)
(* and NaN, occur only as the ratio and position of the kernels that       *)
(* divide by outSamples-1 without a guard; they are modelled explicitly    *)
(* there.  math.Sin and math.Sqrt are modelled by rational approximations  *)
(* that are exact where the real functions take the values 0, 1/2 and 1.   *)
(***************************************************************************)
EXTENDS Integers, Sequences, FiniteSets, TLC

(***************************************************************************)
(* Bounds of the model.                                                    *)
(***************************************************************************)
MaxLen == 3
MaxOut == 5
\* distances handed to an impulse function: a/b with |a/b| <= MaxDist and
\* 1 <= b <= MaxDen
MaxDist == 4
MaxDen == 4
\* goroutines that call the package at the same time
MaxCalls == 2

(***************************************************************************)
(* Exact rational arithmetic standing for float64 arithmetic.              *)
(***************************************************************************)
Abs(i) == IF i < 0 THEN -i ELSE i

RECURSIVE GCD(_, _)
GCD(a, b) == IF b = 0 THEN a ELSE GCD(b, a % b)

Norm(n, d) ==
  LET s == IF d < 0 THEN -1 ELSE 1
      g == GCD(Abs(n), Abs(d))
  IN  <<(s * n) \div g, (s * d) \div g>>

R(i) == <<i, 1>>
Q(n, d) == Norm(n, d)
Zero == <<0, 1>>
One == <<1, 1>>

RAdd(x, y) ==
  LET g == GCD(x[2], y[2])
  IN  Norm(x[1] * (y[2] \div g) + y[1] * (x[2] \div g), (x[2] \div g) * y[2])

RNeg(x) == <<-x[1], x[2]>>
RSub(x, y) == RAdd(x, RNeg(y))

RMul(x, y) ==
  LET g1 == GCD(Abs(x[1]), y[2])
      g2 == GCD(Abs(y[1]), x[2])
  IN  IF x[1] = 0 \/ y[1] = 0 THEN Zero
      ELSE <<(x[1] \div g1) * (y[1] \div g2), (x[2] \div g2) * (y[2] \div g1)>>

RInv(x) == IF x[1] < 0 THEN <<-x[2], -x[1]>> ELSE <<x[2], x[1]>>
RDiv(x, y) == RMul(x, RInv(y))

RLt(x, y) == x[1] * y[2] < y[1] * x[2]
RLe(x, y) == x[1] * y[2] <= y[1] * x[2]
RAbs(x) == <<Abs(x[1]), x[2]>>

\* int(x) of Go: truncation toward zero
Trunc(x) == IF x[1] >= 0 THEN x[1] \div x[2] ELSE -((-x[1]) \div x[2])

\* math.Round: nearest integer, halves away from zero
Round(x) ==
  IF x[1] >= 0 THEN (2 * x[1] + x[2]) \div (2 * x[2])
  ELSE -((2 * (-x[1]) + x[2]) \div (2 * x[2]))

\* math.Floor / math.Ceil (used to state rounding claims)
Floor(x) == x[1] \div x[2]
Ceil(x) == -((-x[1]) \div x[2])

RECURSIVE RSum(_)
RSum(s) == IF s = <<>> THEN Zero ELSE RAdd(Head(s), RSum(Tail(s)))

\* x < 1e-10 for a float that the model can hold: every non-zero rational of
\* the model has a denominator far below 10^10, so only zero is that small.
BelowEps(x) == x[1] = 0

(***************************************************************************)
(* InterpolatorType.                                                       *)
(***************************************************************************)
None == 0
DropSample == 1
Linear == 2
BSpline3 == 3
BSpline5 == 4
Lagrange4 == 5
Lagrange6 == 6
Watte == 7
Parabolic2x == 8
Osculating4 == 9
Osculating6 == 10
Hermite4 == 11
Hermite6_3 == 12
Hermite6_5 == 13
CubicSpline == 14
MonotonicCubic == 15
Lanczos2 == 16
Lanczos3 == 17
Bezier == 18
Akima == 19

(***************************************************************************)
(* Kernel functions (impulse responses).  Each takes the signed distance   *)
(* as a rational and follows the branches and coefficients of the source.  *)
(* A piece of a kernel is a polynomial in absX, written in the source as a *)
(* sum of coefficient * power with x2 := absX * absX, x3 := x2 * absX ...; *)
(* Poly(c, x, k) is that sum from the power k on, for the coefficients     *)
(* c[1] (constant term), c[2] (of x), c[3] (of x2) ...                     *)
(***************************************************************************)
RECURSIVE Pow(_, _)
Pow(x, k) == IF k = 0 THEN One ELSE RMul(Pow(x, k - 1), x)

RECURSIVE Poly(_, _, _)
Poly(c, x, k) ==
  IF k >= Len(c) THEN Zero
  ELSE RAdd(RMul(c[k + 1], Pow(x, k)), Poly(c, x, k + 1))

dropSampleImpulse(x) ==
  LET absX == RAbs(x)
  IN  IF RLe(Zero, absX) /\ RLt(absX, One) THEN One ELSE Zero

\* linearImpulse on the signed distance
linearImpulse_signed(x) ==
  IF RLe(Zero, x) /\ RLt(x, One) THEN RSub(One, x) ELSE Zero

linearImpulse(x) ==
  LET absX == RAbs(x)
  IN  IF RLe(Zero, absX) /\ RLt(absX, One) THEN RSub(One, absX) ELSE Zero

bspline3Impulse(x) ==
  LET absX == RAbs(x)
  IN  IF RLe(Zero, absX) /\ RLt(absX, One)
        THEN Poly(<< <<2, 3>>, <<0, 1>>, <<-1, 1>>, <<1, 2>> >>, absX, 0)
      ELSE IF RLe(One, absX) /\ RLt(absX, R(2))
        THEN Poly(<< <<4, 3>>, <<-2, 1>>, <<1, 1>>, <<-1, 6>> >>, absX, 0)
      ELSE Zero

bspline5Impulse(x) ==
  LET absX == RAbs(x)
  IN  IF RLe(Zero, absX) /\ RLt(absX, One)
        THEN Poly(<< <<11, 20>>, <<0, 1>>, <<-1, 2>>,
                 <<0, 1>>, <<1, 4>>, <<-1, 12>> >>, absX, 0)
      ELSE IF RLe(One, absX) /\ RLt(absX, R(2))
        THEN Poly(<< <<17, 40>>, <<5, 8>>, <<-7, 4>>,
                 <<5, 4>>, <<-3, 8>>, <<1, 24>> >>, absX, 0)
      ELSE IF RLe(R(2), absX) /\ RLt(absX, R(3))
        THEN Poly(<< <<81, 40>>, <<-27, 8>>, <<9, 4>>,
                 <<-3, 4>>, <<1, 8>>, <<-1, 120>> >>, absX, 0)
      ELSE Zero

\* lagrange4Impulse with 10/6 for 11/6 in the outer piece
lagrange4Impulse_outerCoefficient(x) ==
  LET absX == RAbs(x)
  IN  IF RLe(Zero, absX) /\ RLt(absX, One)
        THEN Poly(<< <<1, 1>>, <<-1, 2>>, <<-1, 1>>, <<1, 2>> >>, absX, 0)
      ELSE IF RLe(One, absX) /\ RLt(absX, R(2))
        THEN Poly(<< <<1, 1>>, <<-5, 3>>, <<1, 1>>, <<-1, 6>> >>, absX, 0)
      ELSE Zero

lagrange4Impulse(x) ==
  LET absX == RAbs(x)
  IN  IF RLe(Zero, absX) /\ RLt(absX, One)
        THEN Poly(<< <<1, 1>>, <<-1, 2>>, <<-1, 1>>, <<1, 2>> >>, absX, 0)
      ELSE IF RLe(One, absX) /\ RLt(absX, R(2))
        THEN Poly(<< <<1, 1>>, <<-11, 6>>, <<1, 1>>, <<-1, 6>> >>, absX, 0)
      ELSE Zero

lagrange6Impulse(x) ==
  LET absX == RAbs(x)
  IN  IF RLe(Zero, absX) /\ RLt(absX, One)
        THEN Poly(<< <<1, 1>>, <<-1, 3>>, <<-5, 4>>,
                 <<5, 12>>, <<1, 4>>, <<-1, 12>> >>, absX, 0)
      ELSE IF RLe(One, absX) /\ RLt(absX, R(2))
        THEN Poly(<< <<1, 1>>, <<-13, 12>>, <<-5, 8>>,
                 <<25, 24>>, <<-3, 8>>, <<1, 24>> >>, absX, 0)
      ELSE IF RLe(R(2), absX) /\ RLt(absX, R(3))
        THEN Poly(<< <<1, 1>>, <<-137, 60>>, <<15, 8>>,
                 <<-17, 24>>, <<1, 8>>, <<-1, 120>> >>, absX, 0)
      ELSE Zero

watteImpulse(x) ==
  LET absX == RAbs(x)
  IN  IF RLe(Zero, absX) /\ RLt(absX, One)
        THEN Poly(<< <<1, 1>>, <<-1, 2>>, <<-1, 2>> >>, absX, 0)
      ELSE IF RLe(One, absX) /\ RLt(absX, R(2))
        THEN Poly(<< <<1, 1>>, <<-3, 2>>, <<1, 2>> >>, absX, 0)
      ELSE Zero

parabolic2xImpulse(x) ==
  LET absX == RAbs(x)
  IN  IF RLe(Zero, absX) /\ RLt(absX, One)
        THEN Poly(<< <<1, 2>>, <<0, 1>>, <<-1, 4>> >>, absX, 0)
      ELSE IF RLe(One, absX) /\ RLt(absX, R(2))
        THEN Poly(<< <<1, 1>>, <<-1, 1>>, <<1, 4>> >>, absX, 0)
      ELSE Zero

osculating4Impulse(x) ==
  LET absX == RAbs(x)
  IN  IF RLe(Zero, absX) /\ RLt(absX, One)
        THEN Poly(<< <<1, 1>>, <<0, 1>>, <<-1, 1>>,
                 <<-9, 2>>, <<15, 2>>, <<-3, 1>> >>, absX, 0)
      ELSE IF RLe(One, absX) /\ RLt(absX, R(2))
        THEN Poly(<< <<-4, 1>>, <<18, 1>>, <<-29, 1>>,
                 <<43, 2>>, <<-15, 2>>, <<1, 1>> >>, absX, 0)
      ELSE Zero

osculating6Impulse(x) ==
  LET absX == RAbs(x)
  IN  IF RLe(Zero, absX) /\ RLt(absX, One)
        THEN Poly(<< <<1, 1>>, <<0, 1>>, <<-5, 4>>,
                 <<-35, 12>>, <<21, 4>>, <<-25, 12>> >>, absX, 0)
      ELSE IF RLe(One, absX) /\ RLt(absX, R(2))
        THEN Poly(<< <<-4, 1>>, <<75, 4>>, <<-245, 8>>,
                 <<545, 24>>, <<-63, 8>>, <<25, 24>> >>, absX, 0)
      ELSE IF RLe(R(2), absX) /\ RLt(absX, R(3))
        THEN Poly(<< <<18, 1>>, <<-153, 4>>, <<255, 8>>,
                 <<-313, 24>>, <<21, 8>>, <<-5, 24>> >>, absX, 0)
      ELSE Zero

\* hermite4Impulse with 3.0 for 2.5 in the outer piece
hermite4Impulse_outerCoefficient(x) ==
  LET absX == RAbs(x)
  IN  IF RLe(Zero, absX) /\ RLt(absX, One)
        THEN Poly(<< <<1, 1>>, <<0, 1>>, <<-5, 2>>, <<3, 2>> >>, absX, 0)
      ELSE IF RLe(One, absX) /\ RLt(absX, R(2))
        THEN Poly(<< <<2, 1>>, <<-4, 1>>, <<3, 1>>, <<-1, 2>> >>, absX, 0)
      ELSE Zero

hermite4Impulse(x) ==
  LET absX == RAbs(x)
  IN  IF RLe(Zero, absX) /\ RLt(absX, One)
        THEN Poly(<< <<1, 1>>, <<0, 1>>, <<-5, 2>>, <<3, 2>> >>, absX, 0)
      ELSE IF RLe(One, absX) /\ RLt(absX, R(2))
        THEN Poly(<< <<2, 1>>, <<-4, 1>>, <<5, 2>>, <<-1, 2>> >>, absX, 0)
      ELSE Zero

hermite6_3Impulse(x) ==
  LET absX == RAbs(x)
  IN  IF RLe(Zero, absX) /\ RLt(absX, One)
        THEN Poly(<< <<1, 1>>, <<0, 1>>, <<-7, 3>>, <<4, 3>> >>, absX, 0)
      ELSE IF RLe(One, absX) /\ RLt(absX, R(2))
        THEN Poly(<< <<5, 2>>, <<-59, 12>>, <<3, 1>>, <<-7, 12>> >>, absX, 0)
      ELSE IF RLe(R(2), absX) /\ RLt(absX, R(3))
        THEN Poly(<< <<-3, 2>>, <<7, 4>>, <<-2, 3>>, <<1, 12>> >>, absX, 0)
      ELSE Zero

hermite6_5Impulse(x) ==
  LET absX == RAbs(x)
  IN  IF RLe(Zero, absX) /\ RLt(absX, One)
        THEN Poly(<< <<1, 1>>, <<0, 1>>, <<-25, 12>>,
                 <<5, 12>>, <<13, 12>>, <<-5, 12>> >>, absX, 0)
      ELSE IF RLe(One, absX) /\ RLt(absX, R(2))
        THEN Poly(<< <<1, 1>>, <<5, 12>>, <<-35, 8>>,
                 <<35, 8>>, <<-13, 8>>, <<5, 24>> >>, absX, 0)
      ELSE IF RLe(R(2), absX) /\ RLt(absX, R(3))
        THEN Poly(<< <<3, 1>>, <<-29, 4>>, <<155, 24>>,
                 <<-65, 24>>, <<13, 24>>, <<-1, 24>> >>, absX, 0)
      ELSE Zero

bezierImpulse(x) ==
  LET absX == RAbs(x)
  IN  IF RLe(Zero, absX) /\ RLt(absX, One)
        THEN Poly(<< <<1, 1>>, <<0, 1>>, <<-3, 1>>, <<2, 1>> >>, absX, 0)
      ELSE IF RLe(One, absX) /\ RLt(absX, R(2))
        THEN LET t == RSub(R(2), absX)
             IN  RDiv(RMul(RMul(t, t), RSub(R(3), RMul(R(2), t))), R(8))
      ELSE Zero

(***************************************************************************)
(* math.Pi, math.Sin and math.Sqrt.  Pi is the rational 22/7.  Sin(y) is   *)
(* Bhaskara's rational approximation of the sine of y, taken on the        *)
(* half-period that y lies in: it is exact (0, 1/2, 1) where y/Pi is a     *)
(* multiple of 1/6 that gives a rational sine, and within 0.002 elsewhere. *)
(* Fl rounds to the float grid of the model, 2^-12, and is applied to the  *)
(* quotients of the transcendental path only.                              *)
(***************************************************************************)
Pi == Q(22, 7)
FloatGrid == 4096

Fl(x) == Q(Round(RMul(x, R(FloatGrid))), FloatGrid)

\* Bhaskara's approximation of the sine over one half-period, at the
\* fraction f of the half-period (0 <= f < 1)
HalfWave(f) ==
  LET u == RMul(f, RSub(One, f))
  IN  RDiv(RMul(R(16), u), RSub(R(5), RMul(R(4), u)))

\* the sine at t half-periods, k being the half-period that t lies in
SinHalfPeriods(t, k) ==
  RMul(R(IF k % 2 = 0 THEN 1 ELSE -1), HalfWave(RSub(t, R(k))))

Sin(y) == SinHalfPeriods(RDiv(y, Pi), Floor(RDiv(y, Pi)))

RECURSIVE Newton(_, _)
Newton(n, g) ==
  LET g2 == (g + n \div g) \div 2
  IN  IF g2 >= g THEN g ELSE Newton(n, g2)

\* integer square root, rounded down
ISqrt(n) == IF n <= 0 THEN 0 ELSE Newton(n, n)

SqrtGrid == 64

\* math.Sqrt, exact on squares of rationals and on the grid 1/SqrtGrid otherwise
Sqrt(x) ==
  LET rn == ISqrt(x[1])
      rd == ISqrt(x[2])
  IN  IF rn * rn = x[1] /\ rd * rd = x[2] THEN <<rn, rd>>
      ELSE Q(ISqrt((x[1] * SqrtGrid * SqrtGrid) \div x[2]), SqrtGrid)

\* math.Sin(y) / y
SinOver(y) == Fl(RDiv(Sin(y), y))

lanczos2Impulse(x) ==
  LET absX == RAbs(x)
      piX == RMul(Pi, absX)
  IN  IF BelowEps(absX) THEN One
      ELSE IF RLe(R(2), absX) THEN Zero
      ELSE RMul(SinOver(piX), SinOver(RDiv(piX, R(2))))

lanczos3Impulse(x) ==
  LET absX == RAbs(x)
      piX == RMul(Pi, absX)
  IN  IF BelowEps(absX) THEN One
      ELSE IF RLe(R(3), absX) THEN Zero
      ELSE RMul(SinOver(piX), SinOver(RDiv(piX, R(3))))

\* a kernel passed as a function value (func(float64) float64), named by the
\* selector of its interpolator; the formula inlined in a windowed function
\* is the one of the impulse function of the same kernel
Impulse(kernel, x) ==
  CASE kernel = DropSample -> dropSampleImpulse(x)
    [] kernel = Linear -> linearImpulse(x)
    [] kernel = BSpline3 -> bspline3Impulse(x)
    [] kernel = BSpline5 -> bspline5Impulse(x)
    [] kernel = Lagrange4 -> lagrange4Impulse(x)
    [] kernel = Lagrange6 -> lagrange6Impulse(x)
    [] kernel = Watte -> watteImpulse(x)
    [] kernel = Parabolic2x -> parabolic2xImpulse(x)
    [] kernel = Osculating4 -> osculating4Impulse(x)
    [] kernel = Osculating6 -> osculating6Impulse(x)
    [] kernel = Hermite4 -> hermite4Impulse(x)
    [] kernel = Hermite6_3 -> hermite6_3Impulse(x)
    [] kernel = Hermite6_5 -> hermite6_5Impulse(x)
    [] kernel = Lanczos2 -> lanczos2Impulse(x)
    [] kernel = Lanczos3 -> lanczos3Impulse(x)
    [] kernel = Bezier -> bezierImpulse(x)

(***************************************************************************)
(* Slices.  A Go slice with indices 0..n-1 is a TLA+ sequence with indices *)
(* 1..n of rationals; At(s, j) is s[j] of the source.  A function returns  *)
(* a record: panicked is TRUE when make() was reached with a negative      *)
(* length (runtime panic "makeslice: len out of range"), out is the slice  *)
(* it returns otherwise.                                                   *)
(***************************************************************************)
At(s, j) == s[j + 1]
Ret(s) == [panicked |-> FALSE, out |-> s]
Panic == [panicked |-> TRUE, out |-> <<>>]
\* Fill without the loop that stores v: the slice keeps the zeros of make()
Fill_unset(len, v) == [i \in 1..len |-> Zero]
Fill(len, v) == [i \in 1..len |-> v]

\* the guarded ratio of the position mapping
Ratio(n, outSamples) ==
  IF outSamples > 1 THEN Q(n - 1, outSamples - 1) ELSE Zero

\* linearInterpolate allocating len(in) elements instead of outSamples
linearInterpolate_lenIn(in, outSamples) ==
  IF Len(in) = 0 THEN Ret(<<>>)
  ELSE IF outSamples < 0 THEN Panic
  ELSE IF Len(in) = 1 THEN Ret(Fill(outSamples, At(in, 0)))
  ELSE
    LET ratio == Ratio(Len(in), outSamples)
        outAt(i) ==
          LET pos == RMul(R(i), ratio)
              idx0 == Trunc(pos)
              idx1 == idx0 + 1
              frac == RSub(pos, R(idx0))
          IN  IF idx0 >= Len(in) - 1 THEN At(in, Len(in) - 1)
              ELSE RAdd(RMul(At(in, idx0), RSub(One, frac)),
                        RMul(At(in, idx1), frac))
    IN  Ret([i \in 1..Len(in) |-> outAt(i - 1)])

\* linearInterpolate with the two weights exchanged
linearInterpolate_swapped(in, outSamples) ==
  IF Len(in) = 0 THEN Ret(<<>>)
  ELSE IF outSamples < 0 THEN Panic
  ELSE IF Len(in) = 1 THEN Ret(Fill(outSamples, At(in, 0)))
  ELSE
    LET ratio == Ratio(Len(in), outSamples)
        outAt(i) ==
          LET pos == RMul(R(i), ratio)
              idx0 == Trunc(pos)
              idx1 == idx0 + 1
              frac == RSub(pos, R(idx0))
          IN  IF idx0 >= Len(in) - 1 THEN At(in, Len(in) - 1)
              ELSE RAdd(RMul(At(in, idx0), frac),
                        RMul(At(in, idx1), RSub(One, frac)))
    IN  Ret([i \in 1..outSamples |-> outAt(i - 1)])

\* linearInterpolate with in[0] for in[len(in)-1] in the boundary case
linearInterpolate_firstAtEnd(in, outSamples) ==
  IF Len(in) = 0 THEN Ret(<<>>)
  ELSE IF outSamples < 0 THEN Panic
  ELSE IF Len(in) = 1 THEN Ret(Fill(outSamples, At(in, 0)))
  ELSE
    LET ratio == Ratio(Len(in), outSamples)
        outAt(i) ==
          LET pos == RMul(R(i), ratio)
              idx0 == Trunc(pos)
              idx1 == idx0 + 1
              frac == RSub(pos, R(idx0))
          IN  IF idx0 >= Len(in) - 1 THEN At(in, 0)
              ELSE RAdd(RMul(At(in, idx0), RSub(One, frac)),
                        RMul(At(in, idx1), frac))
    IN  Ret([i \in 1..outSamples |-> outAt(i - 1)])

linearInterpolate(in, outSamples) ==
  IF Len(in) = 0 THEN Ret(<<>>)
  ELSE IF outSamples < 0 THEN Panic
  ELSE IF Len(in) = 1 THEN Ret(Fill(outSamples, At(in, 0)))
  ELSE
    LET ratio == Ratio(Len(in), outSamples)
        outAt(i) ==
          LET pos == RMul(R(i), ratio)
              idx0 == Trunc(pos)
              idx1 == idx0 + 1
              frac == RSub(pos, R(idx0))
          IN  IF idx0 >= Len(in) - 1 THEN At(in, Len(in) - 1)
              ELSE RAdd(RMul(At(in, idx0), RSub(One, frac)),
                        RMul(At(in, idx1), frac))
    IN  Ret([i \in 1..outSamples |-> outAt(i - 1)])

\* dropSampleInterpolate with idx := int(pos) for int(pos + 0.5)
dropSampleInterpolate_truncate(in, outSamples) ==
  IF Len(in) = 0 THEN Ret(<<>>)
  ELSE IF outSamples < 0 THEN Panic
  ELSE IF Len(in) = 1 THEN Ret(Fill(outSamples, At(in, 0)))
  ELSE
    LET ratio == Ratio(Len(in), outSamples)
        outAt(i) ==
          LET pos == RMul(R(i), ratio)
              idx0 == Trunc(pos)
              idx == IF idx0 >= Len(in) THEN Len(in) - 1 ELSE idx0
          IN  At(in, idx)
    IN  Ret([i \in 1..outSamples |-> outAt(i - 1)])

dropSampleInterpolate(in, outSamples) ==
  IF Len(in) = 0 THEN Ret(<<>>)
  ELSE IF outSamples < 0 THEN Panic
  ELSE IF Len(in) = 1 THEN Ret(Fill(outSamples, At(in, 0)))
  ELSE
    LET ratio == Ratio(Len(in), outSamples)
        outAt(i) ==
          LET pos == RMul(R(i), ratio)
              idx0 == Trunc(RAdd(pos, Q(1, 2)))
              idx == IF idx0 >= Len(in) THEN Len(in) - 1 ELSE idx0
          IN  At(in, idx)
    IN  Ret([i \in 1..outSamples |-> outAt(i - 1)])

(***************************************************************************)
(* The windowed kernels that skip the taps outside the input               *)
(* (bspline3Interpolate .. osculating6Interpolate share this body; the     *)
(* impulse formula inlined in each is the one of its impulse function).    *)
(* The window is centerIdx-lo .. centerIdx+hi.                             *)
(***************************************************************************)
SkipWindowSum(in, pos, centerIdx, lo, hi, kernel) ==
  RSum([k \in 1..(lo + hi + 1) |->
         LET j == centerIdx - lo + k - 1
         IN  IF j < 0 \/ j >= Len(in) THEN Zero
             ELSE RMul(At(in, j), Impulse(kernel, RSub(pos, R(j))))])

SkipWindowInterpolate(in, outSamples, lo, hi, kernel) ==
  IF Len(in) = 0 THEN Ret(<<>>)
  ELSE IF outSamples < 0 THEN Panic
  ELSE IF Len(in) = 1 THEN Ret(Fill(outSamples, At(in, 0)))
  ELSE
    Ret([i \in 1..outSamples |->
          LET pos == RMul(R(i - 1), Ratio(Len(in), outSamples))
          IN  SkipWindowSum(in, pos, Trunc(RAdd(pos, Q(1, 2))), lo, hi, kernel)])

bspline3Interpolate(in, outSamples) ==
  SkipWindowInterpolate(in, outSamples, 1, 2, BSpline3)

bspline5Interpolate(in, outSamples) ==
  SkipWindowInterpolate(in, outSamples, 2, 3, BSpline5)

lagrange4Interpolate(in, outSamples) ==
  SkipWindowInterpolate(in, outSamples, 1, 2, Lagrange4)

lagrange6Interpolate(in, outSamples) ==
  SkipWindowInterpolate(in, outSamples, 2, 3, Lagrange6)

watteInterpolate(in, outSamples) ==
  SkipWindowInterpolate(in, outSamples, 1, 2, Watte)

parabolic2xInterpolate(in, outSamples) ==
  SkipWindowInterpolate(in, outSamples, 1, 2, Parabolic2x)

osculating4Interpolate(in, outSamples) ==
  SkipWindowInterpolate(in, outSamples, 1, 2, Osculating4)

osculating6Interpolate(in, outSamples) ==
  SkipWindowInterpolate(in, outSamples, 2, 3, Osculating6)

(***************************************************************************)
(* The windowed kernels that clamp the taps outside the input to the       *)
(* nearest end (hermite4Interpolate .. bezierInterpolate share this body). *)
(* They allocate the result before looking at the input, and compute       *)
(* ratio = (len(in)-1)/(outSamples-1) without a guard: for outSamples = 1  *)
(* the ratio is +Inf and the only position, 0 * +Inf, is NaN.  Every       *)
(* comparison with NaN is false, so the inlined impulse takes its last     *)
(* branch, 0.0; int(math.Round(NaN)) is implementation-specific and is the *)
(* parameter intOfNaN.                                                     *)
(***************************************************************************)
Clamp(j, lastIdx) == IF j < 0 THEN 0 ELSE IF j > lastIdx THEN lastIdx ELSE j

\* the window sum at a position that is a number
ClampWindowSum(in, pos, centerIdx, lo, hi, kernel) ==
  RSum([k \in 1..(lo + hi + 1) |->
         LET j == centerIdx - lo + k - 1
         IN  RMul(At(in, Clamp(j, Len(in) - 1)),
                  Impulse(kernel, RAbs(RSub(pos, R(j)))))])

\* the window sum at the position NaN: every weight is 0.0
ClampWindowSumNaN(in, centerIdx, lo, hi) ==
  RSum([k \in 1..(lo + hi + 1) |->
         RMul(At(in, Clamp(centerIdx - lo + k - 1, Len(in) - 1)), Zero)])

ClampWindowInterpolate(in, outSamples, lo, hi, kernel, intOfNaN) ==
  IF outSamples < 0 THEN Panic
  ELSE IF Len(in) = 0 THEN Ret(Fill(outSamples, Zero))
  ELSE IF Len(in) = 1 THEN Ret(Fill(outSamples, At(in, 0)))
  ELSE IF outSamples - 1 = 0
    THEN Ret([i \in 1..outSamples |-> ClampWindowSumNaN(in, intOfNaN, lo, hi)])
  ELSE
    Ret([i \in 1..outSamples |->
          LET pos == RMul(R(i - 1), Q(Len(in) - 1, outSamples - 1))
          IN  ClampWindowSum(in, pos, Round(pos), lo, hi, kernel)])

hermite4Interpolate(in, outSamples, intOfNaN) ==
  ClampWindowInterpolate(in, outSamples, 1, 2, Hermite4, intOfNaN)

hermite6_3Interpolate(in, outSamples, intOfNaN) ==
  ClampWindowInterpolate(in, outSamples, 2, 3, Hermite6_3, intOfNaN)

hermite6_5Interpolate(in, outSamples, intOfNaN) ==
  ClampWindowInterpolate(in, outSamples, 2, 3, Hermite6_5, intOfNaN)

lanczos2Interpolate(in, outSamples, intOfNaN) ==
  ClampWindowInterpolate(in, outSamples, 1, 2, Lanczos2, intOfNaN)

lanczos3Interpolate(in, outSamples, intOfNaN) ==
  ClampWindowInterpolate(in, outSamples, 2, 3, Lanczos3, intOfNaN)

bezierInterpolate(in, outSamples, intOfNaN) ==
  ClampWindowInterpolate(in, outSamples, 1, 2, Bezier, intOfNaN)

\* The taps of one output sample of a windowed kernel: the indices j of
\* for j := centerIdx - lo; j <= centerIdx + hi; j++, with lo = 1, hi = 2
\* in the four-tap kernels and lo = 2, hi = 3 in the six-tap kernels.
SkipWindowKernels == BSpline3..Osculating6
ClampWindowKernels == {Hermite4, Hermite6_3, Hermite6_5, Lanczos2, Lanczos3, Bezier}
SixTapKernels ==
  {BSpline5, Lagrange6, Osculating6, Hermite6_3, Hermite6_5, Lanczos3}

centerIdx(kernel, pos) ==
  IF kernel \in ClampWindowKernels THEN Round(pos)
  ELSE Trunc(RAdd(pos, Q(1, 2)))

Window(kernel, pos) ==
  IF kernel \in SixTapKernels
    THEN (centerIdx(kernel, pos) - 2)..(centerIdx(kernel, pos) + 3)
  ELSE (centerIdx(kernel, pos) - 1)..(centerIdx(kernel, pos) + 2)

\* the full-sequence convolution
applyInterpolation(in, outSamples, kernel) ==
  IF Len(in) = 0 THEN Ret(<<>>)
  ELSE IF outSamples < 0 THEN Panic
  ELSE
    Ret([i \in 1..outSamples |->
          RSum([k \in 1..Len(in) |->
                 RMul(At(in, k - 1),
                      Impulse(kernel,
                              RSub(RMul(R(i - 1), Ratio(Len(in), outSamples)),
                                   R(k - 1))))])])

(***************************************************************************)
(* Spline solvers.  Inside them the arrays of the source are functions on  *)
(* 0-based index ranges, as in the source.                                 *)
(***************************************************************************)
Arr(s) == [j \in 0..(Len(s) - 1) |-> s[j + 1]]
Knots(len) == [j \in 0..(len - 1) |-> R(j)]
LenA(a) == Cardinality(DOMAIN a)

\* the loop "for i := 1; i < n; i++" of cubicSplineCoefficients from index i
\* on; st holds the arrays l, mu and z
RECURSIVE splineForward(_, _, _, _, _, _)
splineForward(st, x, h, alpha, i, n) ==
  IF i >= n THEN st
  ELSE
    LET li == RSub(RMul(R(2), RSub(x[i + 1], x[i - 1])),
                   RMul(h[i - 1], st.mu[i - 1]))
    IN  splineForward(
          [l |-> [st.l EXCEPT ![i] = li],
           mu |-> [st.mu EXCEPT ![i] = RDiv(h[i], li)],
           z |-> [st.z EXCEPT ![i] =
                   RDiv(RSub(alpha[i], RMul(h[i - 1], st.z[i - 1])), li)]],
          x, h, alpha, i + 1, n)

\* the loop "for j := n - 1; j >= 0; j--" of cubicSplineCoefficients from
\* index j down; co holds the arrays a, b, c and d
RECURSIVE splineBackward(_, _, _, _, _, _)
splineBackward(co, y, h, z, mu, j) ==
  IF j < 0 THEN co
  ELSE
    LET cj == RSub(z[j], RMul(mu[j], co.c[j + 1]))
    IN  splineBackward(
          [a |-> [co.a EXCEPT ![j] = y[j]],
           b |-> [co.b EXCEPT ![j] =
                   RSub(RDiv(RSub(y[j + 1], y[j]), h[j]),
                        RDiv(RMul(h[j], RAdd(co.c[j + 1], RMul(R(2), cj))),
                             R(3)))],
           c |-> [co.c EXCEPT ![j] = cj],
           d |-> [co.d EXCEPT ![j] =
                   RDiv(RSub(co.c[j + 1], cj), RMul(R(3), h[j]))]],
          y, h, z, mu, j - 1)

\* splineSolve with the factor 2 for 3 in alpha
splineSolve_alphaFactor(x, y, h, n) ==
  LET alpha == [i \in 0..(n - 1) |->
                 IF i = 0 THEN Zero
                 ELSE RSub(RMul(RDiv(R(2), h[i]), RSub(y[i + 1], y[i])),
                           RMul(RDiv(R(2), h[i - 1]), RSub(y[i], y[i - 1])))]
      st == splineForward(
              [l |-> [i \in 0..n |-> IF i = 0 \/ i = n THEN One ELSE Zero],
               mu |-> [i \in 0..n |-> Zero],
               z |-> [i \in 0..n |-> Zero]],
              x, h, alpha, 1, n)
  IN  splineBackward(
        [a |-> [j \in 0..(n - 1) |-> Zero], b |-> [j \in 0..(n - 1) |-> Zero],
         c |-> [j \in 0..n |-> Zero], d |-> [j \in 0..(n - 1) |-> Zero]],
        y, h, st.z, st.mu, n - 1)

\* the arrays as make() leaves them, with l[0] = l[n] = 1.0
splineSolve(x, y, h, n) ==
  LET alpha == [i \in 0..(n - 1) |->
                 IF i = 0 THEN Zero
                 ELSE RSub(RMul(RDiv(R(3), h[i]), RSub(y[i + 1], y[i])),
                           RMul(RDiv(R(3), h[i - 1]), RSub(y[i], y[i - 1])))]
      st == splineForward(
              [l |-> [i \in 0..n |-> IF i = 0 \/ i = n THEN One ELSE Zero],
               mu |-> [i \in 0..n |-> Zero],
               z |-> [i \in 0..n |-> Zero]],
              x, h, alpha, 1, n)
  IN  splineBackward(
        [a |-> [j \in 0..(n - 1) |-> Zero], b |-> [j \in 0..(n - 1) |-> Zero],
         c |-> [j \in 0..n |-> Zero], d |-> [j \in 0..(n - 1) |-> Zero]],
        y, h, st.z, st.mu, n - 1)

cubicSplineCoefficients(x, y) ==
  splineSolve(x, y, [i \in 0..(LenA(x) - 2) |-> RSub(x[i + 1], x[i])],
              LenA(x) - 1)

\* the secant slopes (y[i+1] - y[i]) / (x[i+1] - x[i]) of n points
secantSlopes(x, y, n) ==
  [i \in 0..(n - 2) |-> RDiv(RSub(y[i + 1], y[i]), RSub(x[i + 1], x[i]))]

\* the initial tangents of monotonicCubicSlopes
initialTangents(delta, n) ==
  [i \in 0..(n - 1) |->
    IF i = 0 THEN delta[0]
    ELSE IF i = n - 1 THEN delta[n - 2]
    ELSE IF RLe(RMul(delta[i - 1], delta[i]), Zero) THEN Zero
    ELSE RDiv(RAdd(delta[i - 1], delta[i]), R(2))]

\* limitTangents leaving the tangents as they are
limitTangents_unlimited(m, i, alpha, beta, d, norm2) == m

\* m[i] and m[i+1] scaled back when alpha^2 + beta^2 > tau^2, with tau = 3.0
limitTangents(m, i, alpha, beta, d, norm2) ==
  IF RLt(RMul(R(3), R(3)), norm2)
    THEN [m EXCEPT ![i] = RMul(RMul(RDiv(R(3), Sqrt(norm2)), alpha), d),
                   ![i + 1] = RMul(RMul(RDiv(R(3), Sqrt(norm2)), beta), d)]
  ELSE m

\* the tangent adjustment loop of monotonicCubicSlopes, from index i on
RECURSIVE AdjustTangents(_, _, _, _)
AdjustTangents(m, delta, i, n) ==
  IF i >= n - 1 THEN m
  ELSE IF BelowEps(RAbs(delta[i]))
    THEN AdjustTangents([m EXCEPT ![i] = Zero, ![i + 1] = Zero], delta, i + 1, n)
  ELSE
    LET alpha == RDiv(m[i], delta[i])
        beta == RDiv(m[i + 1], delta[i])
    IN  AdjustTangents(
          limitTangents(m, i, alpha, beta, delta[i],
                        RAdd(RMul(alpha, alpha), RMul(beta, beta))),
          delta, i + 1, n)

monotonicCubicSlopes(x, y) ==
  AdjustTangents(initialTangents(secantSlopes(x, y, LenA(x)), LenA(x)),
                 secantSlopes(x, y, LenA(x)), 0, LenA(x))

\* the slope array s of akimaSlopes: the segment slopes at s[2..n] and the
\* two extrapolated slopes at each end
akimaSegmentSlopes(seg, n) ==
  LET s1 == RSub(RMul(R(2), seg[0]), seg[1])
      sn1 == RSub(RMul(R(2), seg[n - 2]), seg[n - 3])
  IN  [k \in 0..(n + 2) |->
        IF k = 0 THEN RSub(RMul(R(2), s1), seg[0])
        ELSE IF k = 1 THEN s1
        ELSE IF k = n + 1 THEN sn1
        ELSE IF k = n + 2 THEN RSub(RMul(R(2), sn1), seg[n - 2])
        ELSE seg[k - 2]]

\* the weighted slopes m of akimaSlopes from the slope array s
akimaWeighted(s, n) ==
  [i \in 0..(n - 1) |->
    LET w1 == RAbs(RSub(s[i + 3], s[i + 2]))
        w2 == RAbs(RSub(s[i + 1], s[i]))
    IN  IF BelowEps(RAdd(w1, w2))
          THEN RDiv(RAdd(s[i + 1], s[i + 2]), R(2))
        ELSE RDiv(RAdd(RMul(w1, s[i + 1]), RMul(w2, s[i + 2])),
                  RAdd(w1, w2))]

\* akimaSlopes without m[n-1] = m[n-2] in the branch for n < 3
akimaSlopes_lastUnset(x, y) ==
  IF LenA(x) < 3
    THEN [i \in 0..(LenA(x) - 1) |->
           IF i < LenA(x) - 1 THEN secantSlopes(x, y, LenA(x))[i] ELSE Zero]
  ELSE akimaWeighted(akimaSegmentSlopes(secantSlopes(x, y, LenA(x)), LenA(x)),
                     LenA(x))

\* called with len(x) >= 2 only (applyAkimaSpline returns earlier otherwise)
akimaSlopes(x, y) ==
  IF LenA(x) < 3
    THEN [i \in 0..(LenA(x) - 1) |->
           secantSlopes(x, y, LenA(x))[IF i < LenA(x) - 1 THEN i
                                       ELSE LenA(x) - 2]]
  ELSE akimaWeighted(akimaSegmentSlopes(secantSlopes(x, y, LenA(x)), LenA(x)),
                     LenA(x))

\* segment index of a position: int(pos), at most len-2, at least 0
Segment(pos, len) ==
  LET j0 == Trunc(pos)
      j1 == IF j0 >= len - 1 THEN len - 2 ELSE j0
  IN  IF j1 < 0 THEN 0 ELSE j1

\* the evaluation loop of applyCubicSpline with the coefficients co
cubicSplineEval(in, outSamples, co) ==
  [i \in 1..outSamples |->
    LET pos == RMul(R(i - 1), Ratio(Len(in), outSamples))
        j == Segment(pos, Len(in))
    IN  Poly(<<co.a[j], co.b[j], co.c[j], co.d[j]>>, RSub(pos, R(j)), 0)]

applyCubicSpline(in, outSamples) ==
  IF Len(in) = 0 THEN Ret(<<>>)
  ELSE IF outSamples < 0 THEN Panic
  ELSE IF Len(in) = 1 THEN Ret(Fill(outSamples, At(in, 0)))
  ELSE Ret(cubicSplineEval(in, outSamples,
                           cubicSplineCoefficients(Knots(Len(in)), Arr(in))))

\* the cubic Hermite form on segment j at the parameter t, with the segment
\* width h: h00*in[j] + h10*h*m[j] + h01*in[j+1] + h11*h*m[j+1]
HermiteForm(in, m, j, h, t) ==
  RSum(<<RMul(Poly(<< <<1, 1>>, <<0, 1>>, <<-3, 1>>, <<2, 1>> >>, t, 0),
              At(in, j)),
         RMul(RMul(Poly(<< <<0, 1>>, <<1, 1>>, <<-2, 1>>, <<1, 1>> >>, t, 0), h),
              m[j]),
         RMul(Poly(<< <<0, 1>>, <<0, 1>>, <<3, 1>>, <<-2, 1>> >>, t, 0),
              At(in, j + 1)),
         RMul(RMul(Poly(<< <<0, 1>>, <<0, 1>>, <<-1, 1>>, <<1, 1>> >>, t, 0), h),
              m[j + 1])>>)

\* the cubic Hermite evaluation shared by applyMonotonicCubic and
\* applyAkimaSpline, with the slopes m
HermiteEval(in, outSamples, x, m) ==
  [i \in 1..outSamples |->
    LET pos == RMul(R(i - 1), Ratio(Len(in), outSamples))
        j == Segment(pos, Len(in))
    IN  HermiteForm(in, m, j, RSub(x[j + 1], x[j]),
                    RDiv(RSub(pos, x[j]), RSub(x[j + 1], x[j])))]

applyMonotonicCubic(in, outSamples) ==
  IF Len(in) = 0 THEN Ret(<<>>)
  ELSE IF outSamples < 0 THEN Panic
  ELSE IF Len(in) = 1 THEN Ret(Fill(outSamples, At(in, 0)))
  ELSE
    Ret(HermiteEval(in, outSamples, Knots(Len(in)),
                    monotonicCubicSlopes(Knots(Len(in)), Arr(in))))

applyAkimaSpline(in, outSamples) ==
  IF Len(in) = 0 THEN Ret(<<>>)
  ELSE IF outSamples < 0 THEN Panic
  ELSE IF Len(in) = 1 THEN Ret(Fill(outSamples, At(in, 0)))
  ELSE
    Ret(HermiteEval(in, outSamples, Knots(Len(in)),
                    akimaSlopes(Knots(Len(in)), Arr(in))))

(***************************************************************************)
(* The two entry points.                                                   *)
(***************************************************************************)
\* make() without the copy
CopyOf_noCopy(in) == [i \in 1..Len(in) |-> Zero]

\* make([]float64, len(in)); copy(out, in)
CopyOf(in) == [i \in 1..Len(in) |-> in[i]]

\* Interpolate reporting an error for a result without elements
Returned_emptyIsError(r) ==
  IF r.panicked THEN [panicked |-> TRUE, out |-> <<>>, err |-> "nil", shares |-> FALSE]
  ELSE [panicked |-> FALSE, out |-> r.out,
        err |-> IF r.out = <<>> THEN "empty result" ELSE "nil", shares |-> FALSE]

\* Interpolate returns (out, err); err is nil on every path.  shares tells
\* whether the returned slice has the backing array of the input: every
\* path returns a slice made by make() or a fresh literal.
Returned(r) ==
  IF r.panicked THEN [panicked |-> TRUE, out |-> <<>>, err |-> "nil", shares |-> FALSE]
  ELSE [panicked |-> FALSE, out |-> r.out, err |-> "nil", shares |-> FALSE]

\* case None returning the input slice itself
noneCase_aliased(in) ==
  [panicked |-> FALSE, out |-> in, err |-> "nil", shares |-> TRUE]

\* case None: the count is not looked at
noneCase(in) == Returned(Ret(CopyOf(in)))

\* default reporting an error instead of copying
defaultCase_error(in) ==
  [panicked |-> FALSE, out |-> <<>>, err |-> "unknown interpolator type",
   shares |-> FALSE]

\* default: any value that is not one of the 20 named ones
defaultCase(in) == Returned(Ret(CopyOf(in)))

Interpolate(in, outSamples, interpolatorType, intOfNaN) ==
  CASE interpolatorType = None -> noneCase(in)
    [] interpolatorType = DropSample -> Returned(dropSampleInterpolate(in, outSamples))
    [] interpolatorType = Linear -> Returned(linearInterpolate(in, outSamples))
    [] interpolatorType = BSpline3 -> Returned(bspline3Interpolate(in, outSamples))
    [] interpolatorType = BSpline5 -> Returned(bspline5Interpolate(in, outSamples))
    [] interpolatorType = Lagrange4 -> Returned(lagrange4Interpolate(in, outSamples))
    [] interpolatorType = Lagrange6 -> Returned(lagrange6Interpolate(in, outSamples))
    [] interpolatorType = Watte -> Returned(watteInterpolate(in, outSamples))
    [] interpolatorType = Parabolic2x -> Returned(parabolic2xInterpolate(in, outSamples))
    [] interpolatorType = Osculating4 -> Returned(osculating4Interpolate(in, outSamples))
    [] interpolatorType = Osculating6 -> Returned(osculating6Interpolate(in, outSamples))
    [] interpolatorType = Hermite4 -> Returned(hermite4Interpolate(in, outSamples, intOfNaN))
    [] interpolatorType = Hermite6_3 -> Returned(hermite6_3Interpolate(in, outSamples, intOfNaN))
    [] interpolatorType = Hermite6_5 -> Returned(hermite6_5Interpolate(in, outSamples, intOfNaN))
    [] interpolatorType = CubicSpline -> Returned(applyCubicSpline(in, outSamples))
    [] interpolatorType = MonotonicCubic -> Returned(applyMonotonicCubic(in, outSamples))
    [] interpolatorType = Lanczos2 -> Returned(lanczos2Interpolate(in, outSamples, intOfNaN))
    [] interpolatorType = Lanczos3 -> Returned(lanczos3Interpolate(in, outSamples, intOfNaN))
    [] interpolatorType = Bezier -> Returned(bezierInterpolate(in, outSamples, intOfNaN))
    [] interpolatorType = Akima -> Returned(applyAkimaSpline(in, outSamples))
    [] OTHER -> defaultCase(in)

\* the rounding of InterpolateInt without the offset of one half
RoundToInt_truncate(v) == Trunc(v)

\* the rounding of InterpolateInt: int(v + 0.5) for v >= 0, int(v - 0.5) else
RoundToInt(v) ==
  IF RLe(Zero, v) THEN Trunc(RAdd(v, Q(1, 2))) ELSE Trunc(RSub(v, Q(1, 2)))

\* the conversion of the input of InterpolateInt: float64(v) of each element
ToFloat(in) == [i \in 1..Len(in) |-> R(in[i][1])]

\* the end of InterpolateInt: the error of Interpolate is passed on, and
\* every sample is rounded otherwise
RoundResult(r) ==
  IF r.panicked THEN r
  ELSE IF r.err # "nil"
    THEN [panicked |-> FALSE, out |-> <<>>, err |-> r.err, shares |-> FALSE]
  ELSE [panicked |-> FALSE,
        out |-> [i \in 1..Len(r.out) |-> R(RoundToInt(r.out[i]))],
        err |-> "nil", shares |-> FALSE]

\* InterpolateInt without the early return for an empty input
InterpolateInt_noEmptyCheck(in, outSamples, interpolatorType, intOfNaN) ==
  RoundResult(Interpolate(ToFloat(in), outSamples, interpolatorType, intOfNaN))

\* in and the result hold integers, written as rationals with denominator 1
InterpolateInt(in, outSamples, interpolatorType, intOfNaN) ==
  IF Len(in) = 0
    THEN [panicked |-> FALSE, out |-> <<>>, err |-> "nil", shares |-> FALSE]
  ELSE RoundResult(Interpolate(ToFloat(in), outSamples, interpolatorType,
                               intOfNaN))

(***************************************************************************)
(* The caller.  heap[inRef] is the backing array of the input slice and    *)
(* heap[outRef] the one of the returned slice (outRef = noRef: no slice yet).  *)
(* given is the input as it was when the call was made.                    *)
(***************************************************************************)
VARIABLES heap, outRef, given, outSamples, interpolatorType, api, err, pc

\* A direct call of an impulse function: kern names the function, dist is
\* its argument and weight the value it returned ("none": not called).
VARIABLES kern, dist, weight

\* Concurrent callers: calls[g] is the call of goroutine g, with the
\* arguments it passed, its position, the index of its output loop and the
\* slice it allocated.
VARIABLES calls

vars == <<heap, outRef, given, outSamples, interpolatorType, api, err, pc,
          kern, dist, weight, calls>>

inRef == "in"
newRef == "new"
noRef == "nil"

\* sample values of the inputs, and the inputs of the calls
SampleValues == {-1, 0, 2}
RECURSIVE SeqsUpTo(_)
SeqsUpTo(len) ==
  IF len = 0 THEN {<<>>}
  ELSE LET shorter == SeqsUpTo(len - 1)
       IN  shorter \cup {Append(s, R(v)) : s \in {t \in shorter : Len(t) = len - 1},
                                          v \in SampleValues}
\* the input of TestInterpolateLinearUpsampling
UpsamplingInput == <<R(0), R(2), R(4)>>
\* a non-decreasing input whose averaged tangent at the middle knot is more
\* than three times the first secant slope
SteepInput == <<R(0), R(1), R(11)>>
Inputs == SeqsUpTo(MaxLen) \cup {UpsamplingInput, SteepInput}

\* selector values: the 20 named ones and one unrecognized value on each side
Selectors == (None - 1)..(Akima + 1)

\* representatives of the implementation-specific int(math.Round(NaN))
IntOfNaN == {-9, 0, 9}

\* the value a caller writes into a result (TestInterpolateNone: 999.999)
Sentinel == Q(999999, 1000)

Init ==
  /\ \E s \in Inputs : heap = [b \in {inRef, newRef} |-> IF b = inRef THEN s ELSE <<>>]
  /\ given = heap[inRef]
  /\ outRef = noRef
  /\ outSamples \in -1..MaxOut
  /\ interpolatorType \in Selectors
  /\ api = "none"
  /\ err = "none"
  /\ pc = "ready"
  /\ kern = "none" /\ dist = "none" /\ weight = "none"
  /\ calls = <<>>

\* the result r of a call reaches the caller
Deliver(r) ==
  IF r.panicked
    THEN /\ pc' = "panicked"
         /\ UNCHANGED <<heap, outRef, err>>
  ELSE /\ pc' = "returned"
       /\ err' = r.err
       /\ IF r.shares
            THEN outRef' = inRef /\ UNCHANGED heap
          ELSE outRef' = newRef /\ heap' = [heap EXCEPT ![newRef] = r.out]

CallInterpolate ==
  /\ pc = "ready"
  /\ api' = "Interpolate"
  /\ \E c \in IntOfNaN :
       Deliver(Interpolate(heap[inRef], outSamples, interpolatorType, c))
  /\ UNCHANGED <<given, outSamples, interpolatorType, kern, dist, weight,
                 calls>>

CallInterpolateInt ==
  /\ pc = "ready"
  /\ api' = "InterpolateInt"
  /\ \E c \in IntOfNaN :
       Deliver(InterpolateInt(heap[inRef], outSamples, interpolatorType, c))
  /\ UNCHANGED <<given, outSamples, interpolatorType, kern, dist, weight,
                 calls>>

\* the caller writes one element of the slice it received
WriteResult ==
  /\ pc = "returned"
  /\ \E i \in 1..Len(heap[outRef]) :
       heap' = [heap EXCEPT ![outRef][i] = Sentinel]
  /\ pc' = "written"
  /\ UNCHANGED <<outRef, given, outSamples, interpolatorType, api, err,
                 kern, dist, weight, calls>>

Next == CallInterpolate \/ CallInterpolateInt \/ WriteResult

Spec == Init /\ [][Next]_vars

\* the slices of the caller
in == heap[inRef]
out == heap[outRef]

(***************************************************************************)
(* The impulse functions called on their own, as the kernel tests do:      *)
(* one call of one of the 16 functions with one distance.                  *)
(***************************************************************************)
\* the selectors that have an impulse function
Kernels == (DropSample..Hermite6_5) \cup {Lanczos2, Lanczos3, Bezier}

Distances == {Q(a, b) : a \in (-MaxDist * MaxDen)..(MaxDist * MaxDen),
                        b \in 1..MaxDen}

KernelInit ==
  /\ kern \in Kernels
  /\ dist \in {d \in Distances : RLe(RAbs(d), R(MaxDist))}
  /\ weight = "none"
  /\ heap = [b \in {inRef, newRef} |-> <<>>]
  /\ given = <<>>
  /\ outRef = noRef
  /\ outSamples = 0
  /\ interpolatorType = None
  /\ api = "none"
  /\ err = "none"
  /\ pc = "idle"
  /\ calls = <<>>

CallImpulse ==
  /\ weight = "none"
  /\ weight' = Impulse(kern, dist)
  /\ UNCHANGED <<heap, outRef, given, outSamples, interpolatorType, api, err,
                 pc, kern, dist, calls>>

KernelNext == CallImpulse

KernelSpec == KernelInit /\ [][KernelNext]_vars

(***************************************************************************)
(* Goroutines calling the package at the same time.  The package has no    *)
(* package-level variable: the only memory the calls have in common is the *)
(* heap, where each caller's input slice lies and where make() places the  *)
(* slice a call returns.  A call allocates its result, fills it one        *)
(* element per step of its loop and returns; the steps of the calls        *)
(* interleave freely.                                                      *)
(***************************************************************************)
Goroutines == 1..MaxCalls

\* the slice goroutine g passes as in
InputOf(g) == <<"in", g>>

ConcInputs == {<<R(0), R(2)>>, <<R(-1), R(0), R(2)>>}
ConcCounts == {2}
ConcSelectors == {None, Linear}
ConcApis == {"Interpolate", "InterpolateInt"}

\* what the call of goroutine c computes from the input as it lies in the
\* heap h
ResultOf(c, g, h) ==
  IF c.api = "Interpolate"
    THEN Interpolate(h[InputOf(g)], c.outSamples, c.interpolatorType, 0)
  ELSE InterpolateInt(h[InputOf(g)], c.outSamples, c.interpolatorType, 0)

\* make() with a slice shared by every call
MakeSlice_reused(h) == <<"out", 1>>

\* make(): a slice no other part of the program refers to
MakeSlice(h) == <<"out", Cardinality({b \in DOMAIN h : b[1] = "out"}) + 1>>

ConcInit ==
  /\ calls \in [Goroutines ->
                  [api : ConcApis, interpolatorType : ConcSelectors,
                   outSamples : ConcCounts, given : ConcInputs,
                   pc : {"ready"}, i : {0}, out : {<<"nil", 0>>},
                   err : {"none"}]]
  /\ heap = [b \in {InputOf(g) : g \in Goroutines} |-> calls[b[2]].given]
  /\ given = <<>>
  /\ outRef = noRef
  /\ outSamples = 0
  /\ interpolatorType = None
  /\ api = "none"
  /\ err = "none"
  /\ pc = "idle"
  /\ kern = "none" /\ dist = "none" /\ weight = "none"

\* out := make(..., n) at the start of the call of goroutine g
Allocate(g, ref, n) ==
  /\ heap' = [b \in DOMAIN heap \cup {ref} |->
                IF b = ref THEN [j \in 1..n |-> Zero] ELSE heap[b]]
  /\ calls' = [calls EXCEPT ![g].pc = "loop", ![g].i = 0, ![g].out = ref]

BeginCall(g) ==
  /\ calls[g].pc = "ready"
  /\ Allocate(g, MakeSlice(heap), Len(ResultOf(calls[g], g, heap).out))
  /\ UNCHANGED <<outRef, given, outSamples, interpolatorType, api, err, pc,
                 kern, dist, weight>>

\* one pass of the loop that fills the result: out[i] = ...
StoreSample(g) ==
  /\ calls[g].pc = "loop"
  /\ calls[g].i < Len(heap[calls[g].out])
  /\ heap' = [heap EXCEPT ![calls[g].out][calls[g].i + 1] =
                 ResultOf(calls[g], g, heap).out[calls[g].i + 1]]
  /\ calls' = [calls EXCEPT ![g].i = calls[g].i + 1]
  /\ UNCHANGED <<outRef, given, outSamples, interpolatorType, api, err, pc,
                 kern, dist, weight>>

\* return out, nil
ReturnCall(g) ==
  /\ calls[g].pc = "loop"
  /\ calls[g].i = Len(heap[calls[g].out])
  /\ calls' = [calls EXCEPT ![g].pc = "returned", ![g].err = "nil"]
  /\ UNCHANGED <<heap, outRef, given, outSamples, interpolatorType, api, err,
                 pc, kern, dist, weight>>

ConcNext ==
  \E g \in Goroutines : BeginCall(g) \/ StoreSample(g) \/ ReturnCall(g)

ConcSpec == ConcInit /\ [][ConcNext]_vars

(***************************************************************************)
(* Properties.                                                             *)
(***************************************************************************)
Named == DropSample..Akima
Done == pc \in {"returned", "written"}
ReturnedFrom(f) == pc = "returned" /\ api = f
\* a call to Interpolate has been made
Called(f) == pc # "ready" /\ api = f

\* C1: for a non-empty input, a count m >= 1 and each of the 19 selectors
\* other than None, Interpolate returns a slice of exactly m elements.
C1_LengthIsRequestedCount ==
  (Called("Interpolate") /\ Len(given) >= 1 /\ outSamples >= 1
     /\ interpolatorType \in Named)
  => (Done /\ Len(out) = outSamples)

C1_Witness ==
  /\ ReturnedFrom("Interpolate") /\ Len(given) = 3 /\ outSamples = 5
  /\ interpolatorType = Linear /\ Len(out) = 5

\* C2: for an empty input Interpolate returns an empty slice, for every
\* count m >= 0 and every one of the 20 selectors.
C2_EmptyInputEmptyOutput ==
  (Called("Interpolate") /\ Len(given) = 0 /\ outSamples >= 0
     /\ interpolatorType \in None..Akima)
  => (Done /\ Len(out) = 0)

\* C3: with None the result has the length of the input and is element-wise
\* equal to it, for every input and every count.
C3_NoneIsIdentity ==
  (Called("Interpolate") /\ interpolatorType = None)
  => (Done /\ (pc = "returned" => (Len(out) = Len(given) /\ out = given)))

C3_Witness ==
  /\ ReturnedFrom("Interpolate") /\ interpolatorType = None
  /\ Len(given) = 3 /\ outSamples = 5 /\ out = given

\* C4: a selector outside the 20 named values gives a length-preserving copy
\* of the input whatever the count, and no error.
C4_UnrecognizedIsIdentity ==
  (Called("Interpolate") /\ interpolatorType \notin None..Akima)
  => (Done /\ err = "nil" /\ (pc = "returned" => out = given))

C4_Witness ==
  /\ ReturnedFrom("Interpolate") /\ interpolatorType = Akima + 1
  /\ Len(given) = 2 /\ outSamples = 5 /\ out = given /\ err = "nil"

\* C5: the input slice keeps its elements through the call and through any
\* later write to the result: the result is a separate buffer.
C5_InputNeverMutated ==
  /\ in = given
  /\ Done => outRef # inRef

C5_Witness ==
  /\ pc = "written" /\ api = "Interpolate" /\ interpolatorType = None
  /\ Len(given) >= 1 /\ out # given /\ in = given

\* C6: endpoint preservation: for every exact kernel, input length >= 2 and
\* count m >= 2, output[0] = input[0] and output[m-1] = input[n-1].
ExactKernels ==
  {Linear, Lagrange4, Lagrange6, Osculating4, Osculating6, Hermite4,
   Hermite6_3, Hermite6_5, CubicSpline, MonotonicCubic, Lanczos2, Lanczos3,
   Bezier, Akima}

C6_EndpointPreservation ==
  (ReturnedFrom("Interpolate") /\ interpolatorType \in ExactKernels
     /\ Len(given) >= 2 /\ outSamples >= 2)
  => (out[1] = given[1] /\ out[outSamples] = given[Len(given)])

\* C7: knot exactness: for the kernels below, input length n >= 2 and
\* m >= 2, whenever i*(n-1)/(m-1) is an integer k, output[i] = input[k];
\* in particular the result for m = n is the input.
KnotExactKernels ==
  {Linear, Lagrange4, Lagrange6, Osculating4, Osculating6, Hermite4,
   Hermite6_3, Hermite6_5, CubicSpline, MonotonicCubic, Akima}

C7_KnotExactness ==
  (ReturnedFrom("Interpolate") /\ interpolatorType \in KnotExactKernels
     /\ Len(given) >= 2 /\ outSamples >= 2)
  => /\ \A i \in 0..(outSamples - 1) :
          (i * (Len(given) - 1)) % (outSamples - 1) = 0
          => out[i + 1] = given[(i * (Len(given) - 1)) \div (outSamples - 1) + 1]
     /\ outSamples = Len(given) => out = given

C7_Witness ==
  /\ ReturnedFrom("Interpolate") /\ interpolatorType = Lagrange4
  /\ given = <<R(-1), R(2), R(0)>> /\ outSamples = 5
  /\ out[3] = R(2) /\ out[2] # R(-1) /\ out[2] # R(2)

\* C8: a single-element input [v] gives v repeated m times, for every m >= 0
\* and every selector other than None.
C8_SingleElementRepeated ==
  (Called("Interpolate") /\ Len(given) = 1 /\ outSamples >= 0
     /\ interpolatorType \in Named)
  => (Done /\ (pc = "returned" =>
                 (Len(out) = outSamples
                  /\ \A i \in 1..outSamples : out[i] = given[1])))

C8_Witness ==
  /\ ReturnedFrom("Interpolate") /\ interpolatorType = BSpline3
  /\ given = <<R(2)>> /\ outSamples = 3 /\ out = <<R(2), R(2), R(2)>>

\* C9: for outSamples = 1 and an input of length >= 2 every kernel other
\* than None maps the single output to position 0, so each kernel that is
\* exact at integer offsets returns [input[0]].
ExactAtIntegers ==
  {Linear, Lagrange4, Lagrange6, Osculating4, Osculating6, Hermite4,
   Hermite6_3, Hermite6_5, CubicSpline, MonotonicCubic, Lanczos2, Lanczos3,
   Akima}

C9_SingleOutputAtPositionZero ==
  (ReturnedFrom("Interpolate") /\ outSamples = 1 /\ Len(given) >= 2
     /\ interpolatorType \in ExactAtIntegers)
  => out = <<given[1]>>

\* C10: Linear resampling: for n >= 2 and m >= 2, with pos = i*(n-1)/(m-1),
\* k = floor(pos) and f = pos - k, output[i] = (1-f)*input[k] + f*input[k+1]
\* (input[n-1] when k >= n-1), which is the full-sequence convolution with
\* linearImpulse; [0, 2, 4] with count 5 gives [0, 1, 2, 3, 4].
LinearValue(s, m, i) ==
  LET pos == Q(i * (Len(s) - 1), m - 1)
      k == Floor(pos)
      f == RSub(pos, R(k))
  IN  IF k >= Len(s) - 1 THEN s[Len(s)]
      ELSE RAdd(RMul(RSub(One, f), s[k + 1]), RMul(f, s[k + 2]))

C10_LinearResampling ==
  (ReturnedFrom("Interpolate") /\ interpolatorType = Linear
     /\ Len(given) >= 2 /\ outSamples >= 2)
  => /\ Len(out) = outSamples
     /\ \A i \in 0..(outSamples - 1) : out[i + 1] = LinearValue(given, outSamples, i)
     /\ out = applyInterpolation(given, outSamples, Linear).out
     /\ (given = UpsamplingInput /\ outSamples = 5)
          => out = <<R(0), R(1), R(2), R(3), R(4)>>

C10_Witness ==
  /\ ReturnedFrom("Interpolate") /\ interpolatorType = Linear
  /\ given = UpsamplingInput /\ outSamples = 5
  /\ out = <<R(0), R(1), R(2), R(3), R(4)>>

\* C11: monotonicity preservation: for MonotonicCubic, a non-decreasing
\* input of length >= 2 and a count m > len(input), the output is
\* non-decreasing.
NonDecreasing(s) == \A i \in 1..(Len(s) - 1) : RLe(s[i], s[i + 1])

HalfAwayFromZero(v) ==
  IF RLe(Zero, v) THEN Floor(RAdd(v, Q(1, 2))) ELSE Ceil(RSub(v, Q(1, 2)))

C12_IntRounding ==
  /\ (ReturnedFrom("InterpolateInt") /\ Len(given) >= 1)
       => \E c \in IntOfNaN :
            out = [i \in 1..Len(Interpolate(given, outSamples,
                                            interpolatorType, c).out) |->
                    R(HalfAwayFromZero(Interpolate(given, outSamples,
                                                   interpolatorType, c).out[i]))]
  /\ ReturnedFrom("InterpolateInt")
       => /\ RoundToInt(Q(3, 2)) = 2
          /\ RoundToInt(Q(-3, 2)) = -2
          /\ RoundToInt(Q(-3, 10)) = 0

\* [-1, 0] resampled to 3 values: the middle value -1/2 becomes -1
C12_Witness ==
  /\ ReturnedFrom("InterpolateInt") /\ interpolatorType = Linear
  /\ given = <<R(-1), R(0)>> /\ outSamples = 3
  /\ Interpolate(given, 3, Linear, 0).out[2] = Q(-1, 2)
  /\ out = <<R(-1), R(-1), R(0)>>

\* C13: InterpolateInt output length: an empty input gives an empty result
\* and a nil error for every count and every selector; a non-empty input
\* gives exactly m elements for every selector other than None, and a
\* result equal to the input for None.
C13_IntOutputLength ==
  Called("InterpolateInt")
  => /\ Len(given) = 0 => (Done /\ err = "nil" /\ Len(out) = 0)
     /\ (Len(given) >= 1 /\ outSamples >= 0 /\ interpolatorType \in Named)
          => (Done /\ Len(out) = outSamples)
     /\ (Len(given) >= 1 /\ interpolatorType = None)
          => (Done /\ Len(out) = Len(given) /\ (pc = "returned" => out = given))

\* an empty input with a selector whose float kernel would return 5 zeros
C13_Witness ==
  /\ ReturnedFrom("InterpolateInt") /\ given = <<>> /\ outSamples = 5
  /\ interpolatorType = Hermite4 /\ out = <<>> /\ err = "nil"
  /\ Len(Interpolate(given, 5, Hermite4, 0).out) = 5

\* C14: Interpolate and InterpolateInt return a nil error for every input,
\* every count m >= 0 and every selector value; no such call fails.
C14_NilError ==
  ((Called("Interpolate") \/ Called("InterpolateInt")) /\ outSamples >= 0)
  => (Done /\ err = "nil")

C14_Witness ==
  /\ ReturnedFrom("InterpolateInt") /\ interpolatorType = None - 1
  /\ Len(given) = 1 /\ outSamples = 0 /\ err = "nil"

\* C15: a negative count is rejected: for every input and every selector
\* Interpolate with m < 0 ends in a failure and returns no result.
C15_NegativeCountRejected ==
  (Called("Interpolate") /\ outSamples < 0 /\ interpolatorType \in None..Akima)
  => pc = "panicked"

\* C16: compact support and evenness: each of the 16 impulse functions is 0
\* for every |x| >= R, R being its radius, and has the same value at x and
\* at -x.
Radius(k) ==
  IF k \in {DropSample, Linear} THEN 1
  ELSE IF k \in {BSpline5, Lagrange6, Osculating6, Hermite6_3, Hermite6_5,
                 Lanczos3} THEN 3
  ELSE 2

ImpulseReturned == weight # "none"

C16_CompactSupportAndEven ==
  ImpulseReturned
  => /\ RLe(R(Radius(kern)), RAbs(dist)) => weight = Zero
     /\ weight = Impulse(kern, RNeg(dist))

\* inside the support at a negative distance, and at the radius itself
C16_Witness ==
  /\ ImpulseReturned /\ kern = Lanczos3 /\ dist = Q(-5, 2)
  /\ weight # Zero /\ weight = Impulse(Lanczos3, Q(5, 2))
  /\ Impulse(Lanczos3, R(-3)) = Zero

\* C17: kernel continuity: for each piecewise-polynomial kernel of radius
\* >= 2 the two pieces next to an internal breakpoint b (|x| = 1, and
\* |x| = 2 for radius 3) have equal values at b.  The value at b of the
\* piece on [b-1, b) is obtained from six values of the kernel inside
\* [b-1, b): a polynomial of degree <= 5 has a vanishing sixth difference.
PiecewiseKernels ==
  {BSpline3, BSpline5, Lagrange4, Lagrange6, Watte, Parabolic2x, Osculating4,
   Osculating6, Hermite4, Hermite6_3, Hermite6_5, Bezier}

SixthDifference == <<-1, 6, -15, 20, -15, 6>>

LeftPieceAt(k, b) ==
  RSum([j \in 1..6 |->
         RMul(R(SixthDifference[j]),
              Impulse(k, RAdd(R(b - 1), Q(j - 1, 6))))])

C17_KernelContinuity ==
  (ImpulseReturned /\ kern \in PiecewiseKernels
     /\ \E b \in 1..(Radius(kern) - 1) : RAbs(dist) = R(b))
  => weight = LeftPieceAt(kern, RAbs(dist)[1])

\* C18: interpolation-exact polynomial kernels: each of the eight functions
\* below is exactly 1 at distance 0 and exactly 0 at every other integer
\* distance.
ExactPolynomialKernels ==
  {Linear, Lagrange4, Lagrange6, Osculating4, Osculating6, Hermite4,
   Hermite6_3, Hermite6_5}

IsInteger(d) == d[2] = 1

C18_ExactPolynomialKernels ==
  (ImpulseReturned /\ kern \in ExactPolynomialKernels /\ IsInteger(dist))
  => weight = (IF dist = Zero THEN One ELSE Zero)

\* a non-zero integer distance inside the support
C18_Witness ==
  /\ ImpulseReturned /\ kern = Hermite6_5 /\ dist = R(-2) /\ weight = Zero
  /\ Impulse(Hermite6_5, Q(-5, 2)) # Zero

\* C19: the Bezier kernel is interpolation-exact: 1 at distance 0 and 0 at
\* every other integer distance, in bezierImpulse and in the formula
\* inlined in bezierInterpolate.
C19_BezierExact ==
  (ImpulseReturned /\ kern = Bezier /\ IsInteger(dist))
  => weight = (IF dist = Zero THEN One ELSE Zero)

\* C20: DropSample is nearest-neighbour: for an input of n >= 2 samples and
\* m >= 1, output i is the input sample at pos(i) = i*(n-1)/(m-1) (0 when
\* m = 1) rounded to the nearest integer, halves up, capped at n-1; with
\* m = n the output is the input.
NearestIndex(i, n, m) ==
  LET c == IF m > 1
             THEN (2 * i * (n - 1) + (m - 1)) \div (2 * (m - 1))
             ELSE 0
  IN  IF c > n - 1 THEN n - 1 ELSE c

Alone(g) ==
  IF calls[g].api = "Interpolate"
    THEN Interpolate(calls[g].given, calls[g].outSamples,
                     calls[g].interpolatorType, 0)
  ELSE InterpolateInt(calls[g].given, calls[g].outSamples,
                      calls[g].interpolatorType, 0)

C22_ConcurrentCallsIndependent ==
  \A g \in DOMAIN calls :
    /\ heap[InputOf(g)] = calls[g].given
    /\ calls[g].pc = "loop"
       => \A j \in 1..calls[g].i : heap[calls[g].out][j] = Alone(g).out[j]
    /\ calls[g].pc = "returned"
       => /\ heap[calls[g].out] = Alone(g).out
          /\ calls[g].err = Alone(g).err
          /\ \A o \in DOMAIN calls \ {g} : calls[o].out # calls[g].out

\* goroutine 2 allocated its result first and is still in its loop when
\* goroutine 1, which allocated second, has returned a different result
C22_Witness ==
  /\ DOMAIN calls = Goroutines
  /\ calls[2].pc = "loop" /\ calls[2].out = <<"out", 1>> /\ calls[2].i = 1
  /\ calls[2].api = "Interpolate" /\ calls[2].interpolatorType = Linear
  /\ calls[2].given = <<R(0), R(2)>> /\ calls[2].outSamples = 2
  /\ calls[1].pc = "returned" /\ calls[1].out = <<"out", 2>>
  /\ calls[1].api = "InterpolateInt" /\ calls[1].interpolatorType = Linear
  /\ calls[1].given = <<R(-1), R(0), R(2)>> /\ calls[1].outSamples = 2
  /\ heap[calls[1].out] = <<R(-1), R(2)>>
  /\ heap[calls[2].out] = <<R(0), R(0)>>

\* C23: the window covers the support: in every windowed kernel function,
\* with the window centerIdx-(R-1) .. centerIdx+R around the rounded
\* position, every sample j with |pos - j| < R lies inside the window, for
\* every position in [0, n-1]; no sample with non-zero weight is left out.
WindowedKernels == SkipWindowKernels \cup ClampWindowKernels

Position(i, n, m) == RMul(R(i), Q(n - 1, m - 1))

C23_WindowCoversSupport ==
  (ReturnedFrom("Interpolate") /\ interpolatorType \in WindowedKernels
     /\ Len(given) >= 2 /\ outSamples >= 2)
  => \A i \in 0..(outSamples - 1) : \A j \in 0..(Len(given) - 1) :
       RLt(RAbs(RSub(Position(i, Len(given), outSamples), R(j))),
           R(Radius(interpolatorType)))
       => j \in Window(interpolatorType,
                       Position(i, Len(given), outSamples))

\* C24: the windowed variants are semantically identical to the
\* full-sequence convolution: for BSpline3, BSpline5, Lagrange4, Lagrange6,
\* Watte, Parabolic2x, Osculating4 and Osculating6, every input of length
\* n >= 2 and every m >= 1, the windowed function returns the sequence that
\* applyInterpolation returns with the kernel's impulse function.
C24_WindowedEqualsConvolution ==
  (ReturnedFrom("Interpolate") /\ interpolatorType \in SkipWindowKernels
     /\ Len(given) >= 2 /\ outSamples >= 1)
  => out = applyInterpolation(given, outSamples, interpolatorType).out

\* C25: edge policy: in every windowed kernel a window index j outside
\* [0, n-1] contributes input[min(max(j, 0), n-1)] * kernel(pos - j) to the
\* sum: the nearest boundary sample is repeated and the tap is never
\* treated as zero.
ClampedTaps(s, kernel, pos) ==
  RSum([k \in 1..(2 * Radius(kernel)) |->
         RMul(s[Clamp(centerIdx(kernel, pos) - Radius(kernel) + k,
                      Len(s) - 1) + 1],
              Impulse(kernel,
                      RSub(pos, R(centerIdx(kernel, pos) - Radius(kernel)
                                    + k))))])

C25_EdgeSamplesRepeated ==
  (ReturnedFrom("Interpolate") /\ interpolatorType \in WindowedKernels
     /\ Len(given) >= 2 /\ outSamples >= 2)
  => \A i \in 1..outSamples :
       out[i] = ClampedTaps(given, interpolatorType,
                            Position(i - 1, Len(given), outSamples))

\* C26: the natural cubic spline coefficients form a C2 spline with natural
\* ends: for every input of length n >= 3 (knots 0..n-1) the arrays of
\* cubicSplineCoefficients satisfy a[j] = input[j], c[0] = 0, c[n-1] = 0,
\* and at every interior knot j+1 (0 <= j < n-2) adjacent segments agree in
\* value, first and second derivative.
NaturalC2(co, y, n) ==
  /\ \A j \in 0..(n - 2) : co.a[j] = y[j]
  /\ co.c[0] = Zero
  /\ co.c[n - 1] = Zero
  /\ \A j \in 0..(n - 3) :
       /\ RSum(<<co.a[j], co.b[j], co.c[j], co.d[j]>>) = co.a[j + 1]
       /\ RSum(<<co.b[j], RMul(R(2), co.c[j]), RMul(R(3), co.d[j])>>)
            = co.b[j + 1]
       /\ RAdd(co.c[j], RMul(R(3), co.d[j])) = co.c[j + 1]

C26_NaturalSplineCoefficients ==
  (ReturnedFrom("Interpolate") /\ interpolatorType = CubicSpline
     /\ Len(given) >= 3)
  => NaturalC2(cubicSplineCoefficients(Knots(Len(given)), Arr(given)),
               Arr(given), Len(given))

\* a bent input: the second derivative at the interior knot is 27/2
C26_Witness ==
  /\ ReturnedFrom("Interpolate") /\ interpolatorType = CubicSpline
  /\ given = SteepInput /\ outSamples = 5
  /\ cubicSplineCoefficients(Knots(3), Arr(given)).c
       = [j \in 0..2 |-> IF j = 1 THEN Q(27, 4) ELSE Zero]
  /\ cubicSplineCoefficients(Knots(3), Arr(given)).b
       = [j \in 0..1 |-> IF j = 0 THEN Q(-5, 4) ELSE Q(11, 2)]
  /\ out[2] = Q(-11, 32)

\* C27: Akima short-input fallback: for an input of length 2 akimaSlopes
\* gives the single secant slope to both knots, so the result of
\* Interpolate with Akima equals the one with Linear, element by element,
\* for every m >= 1.
C27_AkimaShortInputIsLinear ==
  (ReturnedFrom("Interpolate") /\ interpolatorType = Akima
     /\ Len(given) = 2 /\ outSamples >= 1)
  => /\ akimaSlopes(Knots(2), Arr(given))
          = [i \in 0..1 |-> RSub(given[2], given[1])]
     /\ out = Interpolate(given, outSamples, Linear, 0).out

\* a rising input sampled at the thirds of its only segment
C27_Witness ==
  /\ ReturnedFrom("Interpolate") /\ interpolatorType = Akima
  /\ given = <<R(-1), R(2)>> /\ outSamples = 4
  /\ akimaSlopes(Knots(2), Arr(given)) = [i \in 0..1 |-> R(3)]
  /\ out = <<R(-1), R(0), R(1), R(2)>>

====
